---- MODULE Spec2Model ----
(***************************************************************************)
(* Model of the pvlib_forecast integration: the weather observation cache  *)
(* (weather_cache.py), the forecast coordinator (coordinator.py), the      *)
(* irradiance adjustment (pvlib_misc.py) and the sensor's availability     *)
(* (sensor.py).                                                            *)
(*                                                                         *)
(* Time is counted in ticks; an hour is TicksPerHour ticks, so that the    *)
(* flooring of a timestamp to the hour or to the day is a real operation.  *)
(* A timestamp is the UTC instant it denotes.                              *)
(***************************************************************************)
EXTENDS Integers, Sequences, FiniteSets, TLC

TicksPerHour == 2

HoursPerDay == 24

Hour == TicksPerHour

Day == HoursPerDay * Hour

\* The last clock value the model explores.
MaxNow == 54

\* The longest batch handed to one upsert, and the number of rows written in all.
MaxBatch == 2

MaxWrites == 3

\* The number of runs of the coordinator the model explores.
MaxRuns == 2

VARIABLES
    now,                 \* the clock: the current UTC instant
    data,                \* WeatherDataCache.data
    writes,              \* the rows written to the cache by upsert, in order
    last,                \* the last call on the cache and what it returned
    fn,                  \* the last call of a pure function and what it returned
    tz,                  \* the offset of the host's local time from UTC
    weather_entity,      \* coordinator.weather_entity is set
    inverter_kw,         \* coordinator.inverter_kw
    pc,                  \* "idle", or "awaiting" the get_forecasts call
    times,               \* the time grid of the current or last run
    forecast_type,       \* 'hourly' or 'daily', while awaiting
    cdata,               \* coordinator.data
    last_update_success, \* coordinator.last_update_success
    run,                 \* what the current or last run did
    poa                  \* poa_global of the last run that computed it

cacheVars == <<data, writes>>

configVars == <<tz, weather_entity, inverter_kw>>

runVars == <<pc, times, forecast_type, cdata, last_update_success, run, poa>>

vars == <<now, data, writes, last, fn, tz, weather_entity, inverter_kw, pc, times,
          forecast_type, cdata, last_update_success, run, poa>>

-----------------------------------------------------------------------------
(* Sequences *)

SeqsUpTo(S, n) == UNION {[1..k -> S] : k \in 0..n}

-----------------------------------------------------------------------------
(* Floating point numbers, as fixed point numbers with six decimals.  The     *)
(* number x is held as the integer x * Scale; products and quotients are      *)
(* computed in parts so that no intermediate value leaves 32 bits.            *)

Kilo == 1000

Scale == Kilo * Kilo

\* A float that is NaN
NaN == -2000000000

Abs(x) == IF x < 0 THEN -x ELSE x

Max(x, y) == IF x >= y THEN x ELSE y

Min(x, y) == IF x <= y THEN x ELSE y

\* x * y, rounded to the nearest
Mul(x, y) ==
    LET xh  == x \div Kilo
        xl  == x % Kilo
        yh  == y \div Kilo
        yl  == y % Kilo
        mid == xh * yl + xl * yh
        low == (mid % Kilo) * Kilo + xl * yl
    IN  xh * yh + (mid \div Kilo) + ((low + Scale \div 2) \div Scale)

\* x / y for y > 0; operands too large for the long division lose their last digits
RECURSIVE DivPos(_, _)
DivPos(x, y) ==
    IF y > 2 * Scale THEN DivPos(x \div 10, y \div 10)
    ELSE LET q  == x \div y
             r0 == x % y
             d1 == (r0 * Kilo) \div y
             r1 == (r0 * Kilo) % y
             d2 == (r1 * Kilo) \div y
         IN  q * Scale + d1 * Kilo + d2

\* x / y for y # 0
Div(x, y) == IF y > 0 THEN DivPos(x, y) ELSE DivPos(-x, -y)

Pi == 3141593

Ln2 == 693147

\* np.radians
Radians(deg) == Mul(deg, Pi) \div 180

\* cos of an angle in [0, pi/2], by its Taylor series
CosSeries(x) ==
    LET x2 == Mul(x, x)
    IN  Scale - Mul(x2, Scale \div 2
              - Mul(x2, Scale \div 24
              - Mul(x2, Scale \div 720
              - Mul(x2, Scale \div 40320
              - Mul(x2, Scale \div 3628800
              - Mul(x2, Scale \div 479001600))))))

\* np.cos(np.radians(deg)) for an angle in degrees
CosDeg(deg) ==
    LET d == Abs(deg) % (360 * Scale)
        e == IF d > 180 * Scale THEN 360 * Scale - d ELSE d
    IN  IF e > 90 * Scale THEN -CosSeries(Radians(180 * Scale - e))
        ELSE CosSeries(Radians(e))

\* exp of a number in [-1, 0], by its Taylor series
ExpSeries(x) ==
    Scale + Mul(x, Scale + Mul(x \div 2, Scale + Mul(x \div 3, Scale + Mul(x \div 4,
            Scale + Mul(x \div 5, Scale + Mul(x \div 6, Scale + Mul(x \div 7,
            Scale + Mul(x \div 8, Scale + x \div 9))))))))

Square(x) == Mul(x, x)

\* exp of a number <= 0: e^x = (e^(x/16))^16, and 0 below e^-16
ExpNeg(x) ==
    IF x < -16 * Scale THEN 0
    ELSE Square(Square(Square(Square(ExpSeries(x \div 16)))))

\* np.exp
Exp(x) == IF x <= 0 THEN ExpNeg(x) ELSE Div(Scale, ExpNeg(-x))

\* log of a number in [3/4, 3/2]: 2 atanh((x - 1) / (x + 1))
LnSeries(x) ==
    LET t  == Div(x - Scale, x + Scale)
        t2 == Mul(t, t)
    IN  2 * Mul(t, Scale + Mul(t2, Scale \div 3 + Mul(t2, Scale \div 5
                     + Mul(t2, Scale \div 7 + Mul(t2, Scale \div 9)))))

\* log of a number > 0
RECURSIVE Ln(_)
Ln(x) ==
    IF 2 * x >= 3 * Scale THEN Ln2 + Ln(x \div 2)
    ELSE IF 4 * x < 3 * Scale THEN Ln(2 * x) - Ln2
    ELSE LnSeries(x)

\* x ** p for x > 0
Pow(x, p) == Exp(Mul(p, Ln(x)))

-----------------------------------------------------------------------------
(* pvlib_misc.py: the cloud adjustment of the clear-sky irradiance.  Angles   *)
(* are in degrees, irradiances in W/m^2, cloud cover in percent.              *)

IsNaN(x) == x = NaN

\* DataFrame.fillna(0), on one value
FillNa(x) == IF IsNaN(x) THEN 0 ELSE x

\* irradiance.get_extra_radiation: the extraterrestrial irradiance, 1361 W/m^2
ExtraRadiation == 1361 * Scale

\* clearness_index defaults: min_cos_zenith = 0.065, max_clearness_index = 2.0
MinCosZenith == 65000

MaxClearnessIndex == 2 * Scale

\* irradiance.clearness_index(ghi, zenith, extra_radiation)
ClearnessIndex(ghi, zenith, extra) ==
    IF IsNaN(ghi) THEN NaN
    ELSE Min(Max(Div(ghi, Mul(extra, Max(CosDeg(zenith), MinCosZenith))), 0),
             MaxClearnessIndex)

GhiLinearNoFloor(cloud_cover, ghi_clear, offset) ==
    IF IsNaN(cloud_cover) THEN NaN
    ELSE Mul(Scale - Div(cloud_cover, 100 * Scale), ghi_clear)

\* cloud_cover_to_ghi_linear(cloud_cover, ghi_clear, offset):
\*   offset = offset / 100.; cloud_cover = cloud_cover / 100.
\*   (offset + (1 - offset) * (1 - cloud_cover)) * ghi_clear
CloudCoverToGhiLinear(cloud_cover, ghi_clear, offset) ==
    IF IsNaN(cloud_cover) THEN NaN
    ELSE LET off == Div(offset, 100 * Scale)
             cc  == Div(cloud_cover, 100 * Scale)
         IN  Mul(off + Mul(Scale - off, Scale - cc), ghi_clear)

\* the default of cloud_cover_to_ghi_linear's offset: 35
DefaultOffset == 35 * Scale

\* get_relative_airmass(zenith):
\*   1 / (cos(zenith_rad) + 0.50572 * (96.07995 - zenith) ** -1.6364)
\* A negative base gives NaN, a zero base an infinite power and the airmass 0.
GetRelativeAirmass(zenith) ==
    LET base == 96079950 - zenith
    IN  IF base < 0 THEN NaN
        ELSE IF base = 0 THEN 0
        ELSE Div(Scale, CosDeg(zenith) + Mul(505720, Pow(base, -1636400)))

\* _disc_dni defaults: max_zenith = 87, min_cos_zenith = 0.065, max_airmass = 12
DiscMaxZenith == 87 * Scale

DiscMinCosZenith == 65000

DiscMaxAirmass == 12 * Scale

\* _disc_dni: a, b and c by Horner's scheme, for kt <= 0.6 and for kt > 0.6
DiscA(kt) ==
    IF kt <= 600000
    THEN 512000 + Mul(kt, -1560000 + Mul(kt, 2286000 - Mul(2222000, kt)))
    ELSE -5743000 + Mul(kt, 21770000 + Mul(kt, -27490000 + Mul(11560000, kt)))

DiscB(kt) ==
    IF kt <= 600000
    THEN 370000 + Mul(962000, kt)
    ELSE 41400000 + Mul(kt, -118500000 + Mul(kt, 66050000 + Mul(31900000, kt)))

DiscC(kt) ==
    IF kt <= 600000
    THEN -280000 + Mul(kt, 932000 - Mul(2048000, kt))
    ELSE -47010000 + Mul(kt, 184200000 + Mul(kt, -222000000 + Mul(73810000, kt)))

\* Knc = 0.866 + am * (-0.122 + am * (0.0121 + am * (-0.000653 + 1.4e-05 * am)))
DiscKnc(am) ==
    866000 + Mul(am, -122000 + Mul(am, 12100 + Mul(am, -653 + Mul(14, am))))

\* zenith = degrees(arccos(maximum(min_cos_zenith, cos(radians(airmass)))))
\* zenith > max_zenith; arccos decreases, so this compares the cosines
DiscBadZenith(airmass) ==
    Max(DiscMinCosZenith, CosDeg(airmass)) < CosDeg(DiscMaxZenith)

DiscBadValuesNoSign(kt, airmass, dni) == DiscBadZenith(airmass) \/ kt < 0

\* bad_values = (zenith > max_zenith) | (kt < 0) | (dni < 0)
DiscBadValues(kt, airmass, dni) == DiscBadZenith(airmass) \/ kt < 0 \/ dni < 0

\* _disc_dni(kt, airmass, dni_extra)
DiscDni(kt, airmass, dni_extra) ==
    IF IsNaN(kt) \/ IsNaN(airmass) THEN NaN
    ELSE LET am       == Min(airmass, DiscMaxAirmass)
             delta_kn == DiscA(kt) + Mul(DiscB(kt), Exp(Mul(DiscC(kt), am)))
             Kn       == DiscKnc(am) - delta_kn
             dni      == Mul(Kn, dni_extra)
         IN  IF DiscBadValues(kt, airmass, dni) THEN 0 ELSE dni

\* dhi = ghi - dni * np.cos(np.radians(solpos['zenith']))
ScalingDhi(ghi, dni, zenith) ==
    IF IsNaN(ghi) \/ IsNaN(dni) THEN NaN ELSE ghi - Mul(dni, CosDeg(zenith))

\* clearsky_scaling at one timestamp: the clear-sky GHI, the solar zenith and the
\* cloud cover there give the adjusted ghi, dni and dhi, NaN filled with 0
ClearskyScalingAt(ghi_clear, zenith, cloud_cover) ==
    LET ghi     == CloudCoverToGhiLinear(cloud_cover, ghi_clear, DefaultOffset)
        kt      == ClearnessIndex(ghi, zenith, ExtraRadiation)
        airmass == GetRelativeAirmass(zenith)
        dni     == DiscDni(kt, airmass, ExtraRadiation)
        dhi     == ScalingDhi(ghi, dni, zenith)
    IN  [ghi |-> FillNa(ghi), dni |-> FillNa(dni), dhi |-> FillNa(dhi)]

-----------------------------------------------------------------------------
(* Clock: datetime.now(...) and its truncations *)

FloorHour(t) == (t \div Hour) * Hour

FloorDay(t) == (t \div Day) * Day

-----------------------------------------------------------------------------
(* pandas frames: the columns present and the rows in index order *)

\* cloud_coverage of an entry that carries none
NoneValue == -1

Row(ts, cc) == [datetime |-> ts, cloud_coverage |-> cc]

\* pd.DataFrame(): no columns, no rows
EmptyFrame == [columns |-> FALSE, rows |-> <<>>]

\* pd.DataFrame(list_of_dicts): an empty list gives a frame without columns
PdDataFrame(entries) == [columns |-> entries # <<>>, rows |-> entries]

\* pd.concat([a, b]): the union of the columns, a's rows and then b's
PdConcat(a, b) == [columns |-> a.columns \/ b.columns, rows |-> a.rows \o b.rows]

KeepLast(rows, i) == \A j \in (i + 1)..Len(rows) : rows[j].datetime # rows[i].datetime

KeepFirst(rows, i) == \A j \in 1..(i - 1) : rows[j].datetime # rows[i].datetime

\* The rows at the positions in idx, in index order
RECURSIVE RowsAt(_, _, _)
RowsAt(rows, idx, i) ==
    IF i > Len(rows) THEN <<>>
    ELSE (IF i \in idx THEN <<rows[i]>> ELSE <<>>) \o RowsAt(rows, idx, i + 1)

DropDuplicatesKeepFirst(rows) ==
    RowsAt(rows, {i \in DOMAIN rows : KeepFirst(rows, i)}, 1)

\* .drop_duplicates(subset='datetime', keep='last') on the rows
DropDuplicates(rows) == RowsAt(rows, {i \in DOMAIN rows : KeepLast(rows, i)}, 1)

-----------------------------------------------------------------------------
(* WeatherDataCache *)

\* today_utc = datetime.now(pytz.utc).replace(hour=0, minute=0, second=0, microsecond=0)
TodayUtc(t) == FloorDay(t)

RetainedStrict(row, t) == row.datetime > TodayUtc(t)

\* self.data['datetime'] >= today_utc
Retained(row, t) == row.datetime >= TodayUtc(t)

\* clean() on a frame that has the 'datetime' column
CleanRows(rows, t) == SelectSeq(rows, LAMBDA r : Retained(r, t))

\* clean(): self.data['datetime'] raises KeyError on a frame without the column
CleanRaises(frame) == ~frame.columns

UpsertConcatNewFirst(frame, new_data) == PdConcat(new_data, frame)

\* pd.concat([self.data, new_data])
UpsertConcat(frame, new_data) == PdConcat(frame, new_data)

\* upsert(): drop_duplicates(subset='datetime') raises KeyError without the column
UpsertRaises(frame, new_data) == ~UpsertConcat(frame, new_data).columns

\* upsert() when it does not raise: concat, drop_duplicates, then clean()
UpsertFrame(frame, new_data, t) ==
    [columns |-> TRUE,
     rows |-> CleanRows(DropDuplicates(UpsertConcat(frame, new_data).rows), t)]

\* get_data() when it does not raise: clean(), then self.data
GetDataFrame(frame, t) == [columns |-> TRUE, rows |-> CleanRows(frame.rows, t)]

-----------------------------------------------------------------------------
(* The cache driven directly through its interface *)

CacheTimestamps == {Day - Hour, Day, Day + 1}

CloudValues == {NoneValue, 40}

CacheRows == {Row(ts, cc) : ts \in CacheTimestamps, cc \in CloudValues}

NoCall == [name |-> "none"]

\* coordinator.data before the first refresh: None
NoData == [timestamps |-> <<>>, forecast |-> <<>>, wh_period |-> <<>>]

NoRun == [count |-> 0, outcome |-> "none", weather_error |-> "none", fault |-> "none",
          now1 |-> 0, now2 |-> 0]

\* The coordinator after __init__: no data, last_update_success True
CoordinatorInit ==
    /\ pc = "idle"
    /\ times = <<>>
    /\ forecast_type = "none"
    /\ cdata = NoData
    /\ last_update_success = TRUE
    /\ run = NoRun
    /\ poa = <<>>

NoOp == [op |-> "none", raised |-> "none", batch |-> <<>>, pre |-> <<>>, out |-> <<>>]

InitCache ==
    /\ now \in {0, Day - Hour}
    /\ data = EmptyFrame
    /\ writes = <<>>
    /\ last = NoOp
    /\ fn = NoCall
    /\ CoordinatorInit
    /\ tz = 0
    /\ weather_entity = TRUE
    /\ inverter_kw = NoneValue

Tick ==
    /\ now < MaxNow
    /\ now' = now + 1
    /\ last' = NoOp
    /\ UNCHANGED <<cacheVars, fn, configVars, runVars>>

CacheUpsert(batch) ==
    /\ Len(writes) + Len(batch) <= MaxWrites
    /\ IF UpsertRaises(data, PdDataFrame(batch))
       THEN /\ last' = [op |-> "upsert", raised |-> "KeyError", batch |-> batch,
                        pre |-> data.rows, out |-> <<>>]
            /\ UNCHANGED cacheVars
       ELSE /\ data' = UpsertFrame(data, PdDataFrame(batch), now)
            /\ writes' = writes \o batch
            /\ last' = [op |-> "upsert", raised |-> "none", batch |-> batch,
                        pre |-> data.rows, out |-> <<>>]
    /\ UNCHANGED <<now, fn, configVars, runVars>>

CacheGetData ==
    /\ IF CleanRaises(data)
       THEN /\ last' = [op |-> "get_data", raised |-> "KeyError", batch |-> <<>>,
                        pre |-> data.rows, out |-> <<>>]
            /\ UNCHANGED cacheVars
       ELSE /\ data' = GetDataFrame(data, now)
            /\ last' = [op |-> "get_data", raised |-> "none", batch |-> <<>>,
                        pre |-> data.rows, out |-> GetDataFrame(data, now).rows]
            /\ UNCHANGED writes
    /\ UNCHANGED <<now, fn, configVars, runVars>>

NextCache ==
    \/ Tick
    \/ \E batch \in SeqsUpTo(CacheRows, MaxBatch) : CacheUpsert(batch)
    \/ CacheGetData

SpecCache == InitCache /\ [][NextCache]_vars

-----------------------------------------------------------------------------
(* coordinator.py: _create_synthetic_hourly_entries.  The entries are dicts,  *)
(* held by reference: the heap maps a reference (an index) to its dict.       *)

\* pd.date_range(start, end, freq='h'): start, start + 1h, ... up to end
DateRange(start, end) ==
    IF end < start THEN <<>>
    ELSE [i \in 1..((end - start) \div Hour + 1) |-> start + (i - 1) * Hour]

ButLast(s) == IF s = <<>> THEN <<>> ELSE SubSeq(s, 1, Len(s) - 1)

DailyHoursInclusive(date) == DateRange(date, date + Day)

\* daily_hours = pd.date_range(date, date + timedelta(days=1), freq='h')[:-1]
DailyHours(date) == ButLast(DateRange(date, date + Day))

EntryAlias(heap, ref) == [heap |-> heap, ref |-> ref]

\* hourly_entry = daily.copy(): a new dict with the same items
EntryCopy(heap, ref) == [heap |-> Append(heap, heap[ref]), ref |-> Len(heap) + 1]

\* for hour in daily_hours: copy the entry, set its datetime, append it
RECURSIVE SynthHours(_, _, _, _)
SynthHours(heap, out, daily, hours) ==
    IF hours = <<>> THEN [heap |-> heap, out |-> out]
    ELSE LET c == EntryCopy(heap, daily)
             h == [c.heap EXCEPT ![c.ref].datetime = Head(hours)]
         IN  SynthHours(h, Append(out, c.ref), daily, Tail(hours))

\* for daily in daily_forecast_list: ...
RECURSIVE SynthDays(_, _, _)
SynthDays(heap, out, k) ==
    IF k > 0 THEN
        LET before == SynthDays(heap, out, k - 1)
        IN  SynthHours(before.heap, before.out, k, DailyHours(before.heap[k].datetime))
    ELSE [heap |-> heap, out |-> out]

\* _create_synthetic_hourly_entries(daily_forecast_list): the list returned, and
\* the entries of the argument as they are after the call
CreateSyntheticHourlyEntries(daily_forecast_list) ==
    LET n == Len(daily_forecast_list)
        r == SynthDays(daily_forecast_list, <<>>, n)
    IN  [hourly |-> [i \in 1..Len(r.out) |-> r.heap[r.out[i]]],
         daily  |-> [k \in 1..n |-> r.heap[k]]]

-----------------------------------------------------------------------------
(* The pure functions applied to inputs drawn from bounded sets *)

\* The longest list of daily entries
MaxDaily == 2

DailyDates == {0, 1, Day, Day + Hour}

DailyEntries == {Row(ts, cc) : ts \in DailyDates, cc \in {NoneValue, 40}}

ScalingZeniths ==
    {20000000, 60000000, 80400000, 87300000, 89000000, 90240000, 94200000,
     96000000, 96079950, 100000000}

ScalingGhi == {0, 3 * Scale, 50 * Scale, 400 * Scale, 1000 * Scale}

ScalingCloud == {0, 40 * Scale, 100 * Scale}

\* The clear-sky GHI is bounded by 1.2 times the extraterrestrial irradiance on
\* the horizontal, which keeps the arithmetic within its range.
ScalingInputs ==
    {in \in [ghi_clear : ScalingGhi, zenith : ScalingZeniths, cloud_cover : ScalingCloud] :
        in.ghi_clear <= Mul(1200000,
            Mul(ExtraRadiation, Max(CosDeg(in.zenith), MinCosZenith)))}

InitFunctions ==
    /\ now = 0
    /\ data = EmptyFrame
    /\ writes = <<>>
    /\ last = NoOp
    /\ fn = NoCall
    /\ CoordinatorInit
    /\ tz = 0
    /\ weather_entity = TRUE
    /\ inverter_kw = NoneValue

CallClearskyScaling(in) ==
    /\ fn' = [name |-> "clearsky_scaling", zenith |-> in.zenith,
              ghi_clear |-> in.ghi_clear, cloud_cover |-> in.cloud_cover,
              out |-> ClearskyScalingAt(in.ghi_clear, in.zenith, in.cloud_cover)]
    /\ UNCHANGED <<now, data, writes, last, configVars, runVars>>

CallCreateSynthetic(daily) ==
    /\ fn' = [name |-> "_create_synthetic_hourly_entries", arg |-> daily,
              out |-> CreateSyntheticHourlyEntries(daily)]
    /\ UNCHANGED <<now, data, writes, last, configVars, runVars>>

\* Cloud cover in percent and clear-sky GHI in W/m^2 for cloud_cover_to_ghi_linear
LinearCloud == {0, 12500000, 40 * Scale, 50 * Scale, 99999999, 100 * Scale}

LinearGhi == {0, 1, 333333333, 1000 * Scale}

\* cloud_cover_to_ghi_linear(cloud_cover, ghi_clear), offset left at its default
CallCloudCoverToGhiLinear(cloud_cover, ghi_clear) ==
    /\ fn' = [name |-> "cloud_cover_to_ghi_linear", cloud_cover |-> cloud_cover,
              ghi_clear |-> ghi_clear,
              out |-> CloudCoverToGhiLinear(cloud_cover, ghi_clear, DefaultOffset)]
    /\ UNCHANGED <<now, data, writes, last, configVars, runVars>>

NextFunctions ==
    \/ \E cloud_cover \in LinearCloud, ghi_clear \in LinearGhi :
          CallCloudCoverToGhiLinear(cloud_cover, ghi_clear)
    \/ \E in \in ScalingInputs : CallClearskyScaling(in)
    \/ \E daily \in SeqsUpTo(DailyEntries, MaxDaily) : CallCreateSynthetic(daily)

SpecFunctions == InitFunctions /\ [][NextFunctions]_vars

-----------------------------------------------------------------------------
(* The geometry and clear-sky provider (pvlib), for a horizontal array: the   *)
(* solar position by hour of the day, the clear-sky irradiance there and the  *)
(* plane-of-array irradiance.                                                 *)

HourOfDay(ts) == (ts % Day) \div Hour

Hours == 0..(HoursPerDay - 1)

\* location.get_solarposition(times): the zenith, highest sun shortly after noon
ZenithOfHour(h) == 28500000 + Mul(9800000, Abs(h * Scale - 12300000))

SolarZenith == [h \in Hours |-> ZenithOfHour(h)]

CosZenith == [h \in Hours |-> CosDeg(SolarZenith[h])]

\* location.get_clearsky(times): ghi = dni * cos(zenith) + dhi, nothing at night
ClearSkyOfZenith(zenith) ==
    LET c == Max(CosDeg(zenith), 0)
    IN  [ghi |-> Mul(1000 * Scale, c),
         dni |-> IF c > 0 THEN 800 * Scale ELSE 0,
         dhi |-> Mul(200 * Scale, c)]

ClearSky == [h \in Hours |-> ClearSkyOfZenith(SolarZenith[h])]

\* irradiance.get_total_irradiance(tilt = 0, ...)['poa_global']:
\* max(dni * cos(aoi), 0) + dhi, the angle of incidence being the zenith
PoaGlobal(irr, h) == Max(Mul(irr.dni, CosZenith[h]), 0) + irr.dhi

-----------------------------------------------------------------------------
(* coordinator.py: PVLibForecastCoordinator *)

ForecastDays == 7

\* installed_kw = 2, efficiency = 0.96 (the default of the config flow)
InstalledKw == 2 * Scale

Efficiency == 960000

\* inverter_kw: not set, 0 kW, 1 kW
InverterValues == {NoneValue, 0, Scale}

\* The offset of the local clock from UTC
TzOffsets == {0, 0 - 3 * Hour}

\* datetime.now(): the local wall clock, without a timezone
LocalNow(t, offset) == t + offset

\* start = datetime.now().replace(hour=0, minute=0, second=0, microsecond=0)
GridStart(t, offset) == FloorDay(LocalNow(t, offset))

GridEndFromMidnight(t, offset) == FloorDay(LocalNow(t, offset)) + ForecastDays * Day

\* end = datetime.now().replace(minute=0, second=0, microsecond=0) + timedelta(days=7)
GridEnd(t, offset) == FloorHour(LocalNow(t, offset)) + ForecastDays * Day

\* times = pd.date_range(start=..., end=..., freq='h', tz='UTC'); the clock is
\* read once for the start (t1) and once more for the end (t2)
BuildTimes(t1, t2, offset) == DateRange(GridStart(t1, offset), GridEnd(t2, offset))

\* entry['datetime'] = pd.Timestamp(entry['datetime']).floor('h'), for each entry
FloorEntries(list) == [i \in DOMAIN list |-> [list[i] EXCEPT !.datetime = FloorHour(@)]]

\* entry.cloud_coverage or 0
CloudCoverageOrZero(cc) == IF cc = NoneValue \/ cc = 0 THEN 0 ELSE cc

\* A value stored in the float series cloud_cover: a number, or NaN
SeriesValue(cc) == IF IsNaN(cc) THEN NaN ELSE cc * Scale

\* the position of a timestamp in the index, 0 if it is not in it
IndexOf(index, ts) ==
    IF \E i \in DOMAIN index : index[i] = ts
    THEN CHOOSE i \in DOMAIN index : index[i] = ts
    ELSE 0

\* for entry in cached_weather_data.itertuples(): if the timestamp is in the
\* index, cloud_cover[timestamp] = entry.cloud_coverage or 0
RECURSIVE AlignEntries(_, _, _)
AlignEntries(cloud_cover, index, rows) ==
    IF rows = <<>> THEN cloud_cover
    ELSE LET i == IndexOf(index, Head(rows).datetime)
         IN  AlignEntries(
                 IF i > 0
                 THEN [cloud_cover EXCEPT
                          ![i] = SeriesValue(CloudCoverageOrZero(Head(rows).cloud_coverage))]
                 ELSE cloud_cover,
                 index, Tail(rows))

\* cloud_cover = pd.Series(index=times, data=[0.0] * len(times)), then the loop
CloudCoverSeries(index, rows) == AlignEntries([i \in DOMAIN index |-> 0], index, rows)

\* The cloud cover values a forecast can carry, in percent
CloudPercents == {0, 40 * Scale, 100 * Scale}

\* The values of the cloud cover series: a percentage, or NaN
SeriesValues == CloudPercents \cup {NaN}

\* adjust_clearsky(location, clearsky, cloud_cover, method='clearsky_scaling'),
\* by hour of the day and cloud cover
Adjusted ==
    [h \in Hours |-> [c \in SeriesValues |->
        ClearskyScalingAt(ClearSky[h].ghi, SolarZenith[h], c)]]

WeatherErrors ==
    {"state_missing", "unsupported", "service_error", "malformed", "cache_upsert",
     "cache_read", "adjust"}

WeatherErrorCaughtIfValueError(error) == error \in {"state_missing", "unsupported"}

\* except Exception as e: every error of the weather branch is caught
WeatherErrorCaught(error) == error \in WeatherErrors

\* pd.DataFrame(forecast_list) infers the type of the column cloud_coverage: with a
\* number in it the column is float64 and every None in it becomes NaN, with
\* nothing but None it is an object column and keeps them
InferCloudCoverage(entries) ==
    IF \E i \in DOMAIN entries : entries[i].cloud_coverage # NoneValue
    THEN [i \in DOMAIN entries |->
             IF entries[i].cloud_coverage = NoneValue
             THEN [entries[i] EXCEPT !.cloud_coverage = NaN]
             ELSE entries[i]]
    ELSE entries

\* lines 123-131: the forecast of the response, floored to the hour, spread over
\* the hours of the day if it is a daily forecast, as a frame
ForecastFrame(response, ftype) ==
    IF ftype = "daily"
    THEN PdDataFrame(InferCloudCoverage(
             CreateSyntheticHourlyEntries(FloorEntries(response.list)).hourly))
    ELSE PdDataFrame(InferCloudCoverage(FloorEntries(response.list)))

\* lines 115-131: the get_forecasts call has raised or returned; a forecast for the
\* entity is upserted. The error the step ends with ("none": it ran through) and
\* the cache after it
AcquireWeather(response, new_data, frame, t) ==
    IF response.kind = "raise" THEN [error |-> "service_error", frame |-> frame]
    ELSE IF response.kind = "malformed" THEN [error |-> "malformed", frame |-> frame]
    ELSE IF response.kind = "absent" THEN [error |-> "none", frame |-> frame]
    ELSE IF UpsertRaises(frame, new_data) THEN [error |-> "cache_upsert", frame |-> frame]
    ELSE [error |-> "none", frame |-> UpsertFrame(frame, new_data, t)]

\* lines 133-159: the cache is read, the cloud cover series is built from it and
\* adjust_clearsky is called with it
ApplyWeather(acquired, t, index, adjust_raises) ==
    IF acquired.error # "none"
    THEN [error |-> acquired.error, frame |-> acquired.frame, cloud_cover |-> <<>>]
    ELSE IF CleanRaises(acquired.frame)
    THEN [error |-> "cache_read", frame |-> acquired.frame, cloud_cover |-> <<>>]
    ELSE [error       |-> IF adjust_raises THEN "adjust" ELSE "none",
          frame       |-> GetDataFrame(acquired.frame, t),
          cloud_cover |-> CloudCoverSeries(index, GetDataFrame(acquired.frame, t).rows)]

\* adjust_clearsky has returned and clearsky is the frame it returned
WeatherApplied(weather) == weather.error = "none" /\ weather.cloud_cover # <<>>

\* The cloud cover at a position of the grid, 0 where no series was built
CloudCoverAt(weather, i) ==
    IF weather.cloud_cover # <<>> THEN weather.cloud_cover[i] ELSE 0

\* clearsky at the end of the try block, by hour of the day: the adjusted frame if
\* adjust_clearsky returned, the clear-sky baseline if it was never assigned
ClearskyAfterWeather(applied, h, cloud) ==
    IF applied THEN Adjusted[h][cloud] ELSE ClearSky[h]

\* poa_irradiance['poa_global'], by hour of the day and cloud cover
PoaTable ==
    [applied \in BOOLEAN |-> [h \in Hours |-> [c \in SeriesValues |->
        PoaGlobal(ClearskyAfterWeather(applied, h, c), h)]]]

\* dc_power = poa_irradiance['poa_global'] * self.installed_kw * self.efficiency
DcPower(poa_global) == Mul(Mul(poa_global, InstalledKw), Efficiency)

InverterConfiguredIfTruthy(kw) == kw # NoneValue /\ kw # 0

\* if self.inverter_kw is not None
InverterConfigured(kw) == kw # NoneValue

\* max_inverter_watts = self.inverter_kw * 1000
MaxInverterWatts(kw) == Mul(kw, 1000 * Scale)

\* Series.clip(lower=0, upper=max_inverter_watts), on one value
Clip(x, lower, upper) == Min(Max(x, lower), upper)

\* lines 178-182: the power, clipped if an inverter cap is configured
ClippedPower(poa_global, kw) ==
    IF InverterConfigured(kw)
    THEN Clip(DcPower(poa_global), 0, MaxInverterWatts(kw))
    ELSE DcPower(poa_global)

\* dc_power after line 182, by inverter cap, hour of the day and cloud cover
PowerTable ==
    [kw \in InverterValues |-> [applied \in BOOLEAN |-> [h \in Hours |->
        [c \in SeriesValues |-> ClippedPower(PoaTable[applied][h][c], kw)]]]]

ForecastResultOnOldGrid(index, dc_power) ==
    [wh_period  |-> [i \in DOMAIN index |-> <<index[i], dc_power[i]>>],
     timestamps |-> cdata.timestamps,
     forecast   |-> dc_power]

\* The value returned by _async_update_data; wh_period, a dict, as its items
ForecastResult(index, dc_power) ==
    [wh_period  |-> [i \in DOMAIN index |-> <<index[i], dc_power[i]>>],
     timestamps |-> index,
     forecast   |-> dc_power]

availableIfData(success, result) == result # NoData

\* PVLibForecastSensor.available
available(success, result) == success

\* DataUpdateCoordinator: a refresh that raised keeps the data and clears
\* last_update_success, a refresh that returned stores the result and sets it
RefreshData(raised, old, result) == IF raised THEN old ELSE result

RefreshSuccess(raised) == ~raised

\* Lines 164-191 and the refresh around them: the weather step is over; the
\* irradiance on the array and the power are computed and returned, or the run fails
Finish(index, t1, t2, weather, poa_raises) ==
    LET uncaught == weather.error # "none" /\ ~WeatherErrorCaught(weather.error)
        applied  == WeatherApplied(weather)
        raised   == uncaught \/ poa_raises
    IN  /\ pc' = "idle"
        /\ times' = index
        /\ forecast_type' = "none"
        /\ cdata' = RefreshData(raised, cdata,
               ForecastResult(index,
                   [i \in DOMAIN index |->
                       PowerTable[inverter_kw][applied][HourOfDay(index[i])]
                                 [CloudCoverAt(weather, i)]]))
        /\ last_update_success' = RefreshSuccess(raised)
        /\ poa' = IF raised THEN poa
                  ELSE [i \in DOMAIN index |->
                           PoaTable[applied][HourOfDay(index[i])][CloudCoverAt(weather, i)]]
        /\ run' = [count |-> run.count + 1,
                   outcome |-> IF raised THEN "failed" ELSE "returned",
                   weather_error |-> weather.error,
                   fault |-> IF poa_raises /\ ~uncaught THEN "poa" ELSE "none",
                   now1 |-> t1, now2 |-> t2]

NoWeather == [error |-> "none", frame |-> EmptyFrame, cloud_cover |-> <<>>]

\* The states of the weather entity: no state, hourly forecasts, daily forecasts
\* only, neither
EntityStates == {"missing", "hourly", "daily", "unsupported"}

\* The forecasts the weather service returns at time t. Daily: none, or today and
\* tomorrow at midnight. Hourly: none; one inside the hour and one for yesterday;
\* two of the same hour and one beyond the grid
ForecastLists(t, ftype) ==
    IF ftype = "daily"
    THEN {<<>>, <<Row(FloorDay(t), 40), Row(FloorDay(t) + Day, 100)>>}
    ELSE {<<>>,
          <<Row(t + 1, 40), Row(FloorDay(t) - Hour, 100)>>,
          <<Row(FloorHour(t) + Hour, 100), Row(FloorHour(t) + Hour + 1, NoneValue),
            Row(FloorHour(t) + (ForecastDays + 1) * Day, 40)>>}

\* What the get_forecasts call gives: it raises, it returns nothing for the entity,
\* a payload without the expected keys, or a forecast
Responses(t, ftype) ==
    {[kind |-> "raise", list |-> <<>>], [kind |-> "absent", list |-> <<>>],
     [kind |-> "malformed", list |-> <<>>]}
    \cup {[kind |-> "forecast", list |-> l] : l \in ForecastLists(t, ftype)}

Init ==
    /\ now = MaxNow - 1
    /\ data = EmptyFrame
    /\ writes = <<>>
    /\ last = NoOp
    /\ fn = NoCall
    /\ CoordinatorInit
    /\ tz \in TzOffsets
    /\ weather_entity \in BOOLEAN
    /\ inverter_kw \in InverterValues

\* The clock advances
Pass ==
    /\ now < MaxNow
    /\ now' = now + 1
    /\ UNCHANGED <<cacheVars, last, fn, configVars, runVars>>

\* _async_update_data where the solar position or the clear-sky baseline raise
\* after the time grid is built: the run fails at once
RunFailsEarly(elapsed) ==
    /\ pc = "idle"
    /\ run.count < MaxRuns
    /\ now + elapsed <= MaxNow
    /\ now' = now + elapsed
    /\ pc' = "idle"
    /\ \E index \in {BuildTimes(now, now + elapsed, tz)} : times' = index
    /\ forecast_type' = "none"
    /\ cdata' = RefreshData(TRUE, cdata, NoData)
    /\ last_update_success' = RefreshSuccess(TRUE)
    /\ run' = [count |-> run.count + 1, outcome |-> "failed", weather_error |-> "none",
               fault |-> "geometry", now1 |-> now, now2 |-> now + elapsed]
    /\ UNCHANGED <<cacheVars, last, fn, configVars, poa>>

\* _async_update_data with no weather entity configured: one step to the result
RunWithoutWeather(elapsed, poa_raises) ==
    /\ pc = "idle"
    /\ run.count < MaxRuns
    /\ now + elapsed <= MaxNow
    /\ ~weather_entity
    /\ now' = now + elapsed
    /\ \E index \in {BuildTimes(now, now + elapsed, tz)} :
          Finish(index, now, now + elapsed, NoWeather, poa_raises)
    /\ UNCHANGED <<cacheVars, last, fn, configVars>>

\* _async_update_data with a weather entity, up to the get_forecasts call: a missing
\* state or no supported forecast raises ValueError in the weather branch
RunStart(elapsed, state, poa_raises) ==
    /\ pc = "idle"
    /\ run.count < MaxRuns
    /\ now + elapsed <= MaxNow
    /\ weather_entity
    /\ now' = now + elapsed
    /\ \E index \in {BuildTimes(now, now + elapsed, tz)} :
          IF state \in {"hourly", "daily"}
          THEN /\ ~poa_raises
               /\ pc' = "awaiting"
               /\ times' = index
               /\ forecast_type' = state
               /\ run' = [run EXCEPT !.now1 = now, !.now2 = now + elapsed]
               /\ UNCHANGED <<cdata, last_update_success, poa>>
          ELSE Finish(index, now, now + elapsed,
                      [error |-> IF state = "missing" THEN "state_missing"
                                 ELSE "unsupported",
                       frame |-> data, cloud_cover |-> <<>>],
                      poa_raises)
    /\ UNCHANGED <<cacheVars, last, fn, configVars>>

\* _async_update_data from the return of the get_forecasts call to its end
RunResume(response, adjust_raises, poa_raises) ==
    /\ pc = "awaiting"
    /\ \E new_data \in {ForecastFrame(response, forecast_type)} :
       \E acquired \in {AcquireWeather(response, new_data, data, now)} :
       \E weather \in {ApplyWeather(acquired, now, times, adjust_raises)} :
          /\ adjust_raises => weather.error = "adjust"
          /\ data' = weather.frame
          /\ last' = [op |-> "align", response |-> response.kind,
                      rows |-> weather.frame.rows,
                      cloud_cover |-> weather.cloud_cover]
          /\ Finish(times, run.now1, run.now2, weather, poa_raises)
    /\ UNCHANGED <<now, writes, fn, configVars>>

\* PVLibForecastSensor.state: None without data, None if the forecast and the
\* timestamps differ in length, else a value computed from the two
StateOf(result) ==
    IF result = NoData THEN "none"
    ELSE IF Len(result.forecast) # Len(result.timestamps) THEN "mismatch"
    ELSE "value"

\* A sensor reads its state while a run waits for the get_forecasts call
SensorState ==
    /\ pc = "awaiting"
    /\ fn' = [name |-> "state", out |-> StateOf(cdata)]
    /\ UNCHANGED <<now, cacheVars, last, configVars, runVars>>

Next ==
    \/ Pass
    \/ \E elapsed \in {0, 1} : RunFailsEarly(elapsed)
    \/ \E elapsed \in {0, 1}, poa_raises \in BOOLEAN :
          RunWithoutWeather(elapsed, poa_raises)
    \/ \E elapsed \in {0, 1}, state \in EntityStates, poa_raises \in BOOLEAN :
          RunStart(elapsed, state, poa_raises)
    \/ \E response \in Responses(now, forecast_type), fault \in {"none", "adjust", "poa"} :
          RunResume(response, fault = "adjust", fault = "poa")

Spec == Init /\ [][Next]_vars

\* The runs of the coordinator with the sensors reading during them
NextReader == Next \/ SensorState

\* No inverter cap: the cap changes the values of a result, not how it is published
InitReader == Init /\ inverter_kw = NoneValue

SpecReader == InitReader /\ [][NextReader]_vars

-----------------------------------------------------------------------------
(* Claims about the cache, checked under SpecCache *)

\* The position in the log of writes of the latest write of timestamp ts (0: never written)
LastWriteIdx(ts) ==
    LET W == {k \in DOMAIN writes : writes[k].datetime = ts}
    IN  IF W = {} THEN 0 ELSE CHOOSE k \in W : \A m \in W : m <= k

GetDataReturned == last.op = "get_data" /\ last.raised = "none"

\* C3: after any sequence of upserts the cache holds at most one observation per
\* timestamp, and each stored observation is the one of the latest write of its
\* timestamp, whether the writes came in one batch or in several.
C3_LastWriteWins ==
    /\ \A i, j \in DOMAIN data.rows :
          i # j => data.rows[i].datetime # data.rows[j].datetime
    /\ \A i \in DOMAIN data.rows :
          /\ LastWriteIdx(data.rows[i].datetime) > 0
          /\ data.rows[i] = writes[LastWriteIdx(data.rows[i].datetime)]

\* A stored timestamp that was written twice with different observations.
C3_Witness ==
    \E i \in DOMAIN data.rows : \E k, m \in DOMAIN writes :
        /\ k < m
        /\ writes[k].datetime = data.rows[i].datetime
        /\ writes[m].datetime = data.rows[i].datetime
        /\ writes[k].cloud_coverage # writes[m].cloud_coverage

\* C4: a result of get_data holds no observation earlier than the start of the UTC
\* day current at the read, holds every stored observation at or after that start,
\* and applying the retention rule a second time changes nothing.
C4_ReadIsRetentionWindow ==
    /\ GetDataReturned =>
          /\ \A i \in DOMAIN last.out : last.out[i].datetime >= FloorDay(now)
          /\ \A i \in DOMAIN last.pre :
                last.pre[i].datetime >= FloorDay(now)
                    => \E j \in DOMAIN last.out : last.out[j] = last.pre[i]
          /\ data.rows = last.out
    /\ CleanRows(CleanRows(data.rows, now), now) = CleanRows(data.rows, now)

\* A read after the UTC day rolled over: it dropped a stored observation of the day
\* before and kept one written for the start of the new day.
C4_Witness ==
    /\ GetDataReturned
    /\ \E i \in DOMAIN last.pre : last.pre[i].datetime < FloorDay(now)
    /\ \E j \in DOMAIN last.out : last.out[j].datetime = FloorDay(now)

\* C5: the cache has no error states: get_data, and upsert with an empty sequence,
\* complete without error in every reachable state of the cache, and the empty
\* upsert leaves the contents unchanged.
C5_NoErrorStates ==
    (last.op = "get_data" \/ (last.op = "upsert" /\ last.batch = <<>>)) =>
        /\ last.raised = "none"
        /\ last.op = "upsert" => data.rows = last.pre

\* C6 as stated: get_data returns the contents in ascending order of timestamp.
C6_ReadAscending ==
    GetDataReturned =>
        \A i, j \in DOMAIN last.out :
            i < j => last.out[i].datetime < last.out[j].datetime

\* C6 as amended: get_data returns the contents in the order of the latest write of
\* each timestamp (no sort is applied).
C6_ReadInWriteOrder ==
    GetDataReturned =>
        \A i, j \in DOMAIN last.out :
            i < j => LastWriteIdx(last.out[i].datetime) < LastWriteIdx(last.out[j].datetime)

\* A read that is not ascending: a later upsert added an earlier timestamp.
C6_Witness ==
    /\ GetDataReturned
    /\ \E i, j \in DOMAIN last.out :
          i < j /\ last.out[i].datetime > last.out[j].datetime

-----------------------------------------------------------------------------
(* Claims about the pure functions, checked under SpecFunctions *)

SynthCalled == fn.name = "_create_synthetic_hourly_entries"

\* C8: _create_synthetic_hourly_entries maps n daily entries to exactly 24 * n
\* hourly entries: for each daily entry, in order, one entry at each of the 24
\* hours from the entry's datetime up to but excluding the same time on the next
\* day, equal to the daily entry in every field but datetime; the entries of the
\* argument are unchanged by the call.
C8_SyntheticHourly ==
    SynthCalled =>
        /\ Len(fn.out.hourly) = 24 * Len(fn.arg)
        /\ \A k \in DOMAIN fn.arg : \A h \in 0..23 :
              fn.out.hourly[(k - 1) * 24 + h + 1]
                  = [fn.arg[k] EXCEPT !.datetime = fn.arg[k].datetime + h * Hour]
        /\ \A i \in DOMAIN fn.out.hourly :
              \E k \in DOMAIN fn.arg :
                  /\ fn.out.hourly[i].cloud_coverage = fn.arg[k].cloud_coverage
                  /\ fn.out.hourly[i].datetime >= fn.arg[k].datetime
                  /\ fn.out.hourly[i].datetime < fn.arg[k].datetime + Day
        /\ fn.out.daily = fn.arg

\* Two daily entries with different cloud cover became 48 hourly entries.
C8_Witness ==
    /\ SynthCalled
    /\ Len(fn.arg) = 2
    /\ fn.arg[1].cloud_coverage # fn.arg[2].cloud_coverage
    /\ Len(fn.out.hourly) = 48

ScalingCalled == fn.name = "clearsky_scaling"

\* C10: every GHI, DNI and DHI value returned by clearsky_scaling is non-negative,
\* for cloud cover in [0, 100], clear-sky GHI >= 0 and every zenith angle.
C10_ScalingNonNegative ==
    ScalingCalled => fn.out.ghi >= 0 /\ fn.out.dni >= 0 /\ fn.out.dhi >= 0

\* A point with the sun up where DISC gives a positive DNI and the DHI is what is
\* left of the GHI.
C10_Witness ==
    /\ ScalingCalled
    /\ fn.out.dni > 0
    /\ fn.out.dhi > 0
    /\ fn.out.dhi < fn.out.ghi

LinearCalled == fn.name = "cloud_cover_to_ghi_linear"

\* C12: cloud_cover_to_ghi_linear with the default offset returns
\* (0.35 + 0.65 * (1 - c/100)) * ghi_clear: ghi_clear itself at c = 0,
\* 0.35 * ghi_clear at c = 100, and no more for a larger c than for a smaller one
\* at the same ghi_clear >= 0.
C12_LinearGhi ==
    /\ [](LinearCalled =>
            /\ fn.out = Mul(350000 + Mul(650000, Scale - fn.cloud_cover \div 100),
                            fn.ghi_clear)
            /\ fn.cloud_cover = 0 => fn.out = fn.ghi_clear
            /\ fn.cloud_cover = 100 * Scale => fn.out = Mul(350000, fn.ghi_clear)
            /\ fn.out >= Mul(350000, fn.ghi_clear)
            /\ fn.out <= fn.ghi_clear)
    /\ [][(/\ LinearCalled
           /\ LinearCalled'
           /\ fn'.ghi_clear = fn.ghi_clear
           /\ fn'.cloud_cover >= fn.cloud_cover) => fn'.out <= fn.out]_vars

\* A call at full cloud cover with a clear-sky GHI of 1000 W/m^2 returned 350.
C12_Witness ==
    /\ LinearCalled
    /\ fn.cloud_cover = 100 * Scale
    /\ fn.ghi_clear = 1000 * Scale
    /\ fn.out = 350 * Scale

-----------------------------------------------------------------------------
(* Claims about the runs of the coordinator, checked under Spec *)

\* A run has finished and none is under way: run describes it, times is its grid
RunFinished == pc = "idle" /\ run.count > 0

\* The last run met an error in its weather branch and no fault outside it
WeatherFailed == RunFinished /\ run.weather_error # "none" /\ run.fault = "none"

\* C1: a run with a weather entity in which acquiring or applying the weather data
\* raised (no state, no supported forecast, the service call, a malformed payload,
\* the cache, adjust_clearsky) returns a result, and the irradiance on the array and
\* the power of that result are those of the clear-sky baseline at each grid point.
C1_WeatherErrorFallsBack ==
    WeatherFailed =>
        /\ weather_entity
        /\ run.outcome = "returned"
        /\ cdata.timestamps = times
        /\ DOMAIN cdata.forecast = DOMAIN times
        /\ \A i \in DOMAIN times :
              LET h == HourOfDay(times[i])
                  baseline == Max(Mul(ClearSky[h].dni, CosZenith[h]), 0) + ClearSky[h].dhi
              IN  /\ poa[i] = baseline
                  /\ cdata.forecast[i] = ClippedPower(baseline, inverter_kw)

\* The cache could not be read in a run, and the run returned a forecast with power
\* in it.
C1_Witness ==
    /\ WeatherFailed
    /\ run.weather_error = "cache_read"
    /\ run.outcome = "returned"
    /\ \E i \in DOMAIN cdata.forecast : cdata.forecast[i] > 0

\* C2: a run that fails keeps the published result as it was and leaves the sensors
\* unavailable, a run that returns (also one that fell back to the baseline after a
\* weather error) leaves them available, and between runs neither changes.
C2_FailedRunKeepsResult ==
    /\ [][IF run'.count # run.count
          THEN IF run'.outcome = "failed"
               THEN /\ cdata' = cdata
                    /\ ~available(last_update_success', cdata')
               ELSE /\ cdata'.timestamps = times'
                    /\ available(last_update_success', cdata')
          ELSE /\ cdata' = cdata
               /\ available(last_update_success', cdata')
                      = available(last_update_success, cdata)]_vars
    /\ [](run.outcome = "failed" => ~available(last_update_success, cdata))
    /\ [](run.outcome = "returned" => available(last_update_success, cdata))
    /\ [](run.outcome = "returned" => run.fault = "none")
    /\ [](run.fault # "none" => run.outcome = "failed")

\* The second run failed outside the weather branch after the first had published a
\* result: the result of the first run is still there and the sensors are unavailable.
C2_Witness ==
    /\ run.count = 2
    /\ run.outcome = "failed"
    /\ run.fault = "poa"
    /\ cdata # NoData
    /\ cdata.timestamps # times
    /\ ~available(last_update_success, cdata)

\* The hours from the midnight before the first clock read of the run to the hour
\* of its second clock read
HoursIntoDay ==
    (FloorHour(LocalNow(run.now2, tz)) - FloorDay(LocalNow(run.now1, tz))) \div Hour

UniformHourly(index) == \A i \in 1..(Len(index) - 1) : index[i + 1] = index[i] + Hour

\* C7 as claimed: the time grid of a run has exactly 24*7 + 1 points, starts at the
\* start of the current day, ends 7 days after its start, is strictly increasing
\* and has 1-hour spacing.
C7_GridHasOneWeekOfHours ==
    times # <<>> =>
        /\ Len(times) = 24 * 7 + 1
        /\ times[1] = FloorDay(LocalNow(run.now1, tz))
        /\ times[Len(times)] = times[1] + 7 * Day
        /\ UniformHourly(times)

\* C7: the time grid of a run starts at the local midnight before the run's first
\* clock read, ends 7 days after the local hour of its second clock read, has
\* 1-hour spacing and is strictly increasing: 24*7 + 1 + h points, h being the
\* hours from that midnight to that hour.
C7_GridFromMidnightToHourPlusWeek ==
    times # <<>> =>
        /\ Len(times) = 24 * 7 + 1 + HoursIntoDay
        /\ times[1] = FloorDay(LocalNow(run.now1, tz))
        /\ times[Len(times)] = FloorHour(LocalNow(run.now2, tz)) + 7 * Day
        /\ UniformHourly(times)
        /\ \A i \in 1..(Len(times) - 1) : times[i] < times[i + 1]

\* A run whose two clock reads fall in different hours, after the first hour of the
\* day: the grid has more than 24*7 + 1 points.
C7_Witness ==
    /\ RunFinished
    /\ run.outcome = "returned"
    /\ run.now1 < run.now2
    /\ HoursIntoDay > 0
    /\ Len(times) > 24 * 7 + 1

\* C9: with an inverter cap configured (0 included) every value of the published
\* power series lies in [0, inverter_kw * 1000]; with none the series is
\* poa_global * installed_kw * efficiency at every point.
C9_InverterClipping ==
    cdata # NoData =>
        /\ DOMAIN cdata.forecast = DOMAIN poa
        /\ IF inverter_kw # NoneValue
           THEN \A i \in DOMAIN cdata.forecast :
                   /\ cdata.forecast[i] >= 0
                   /\ cdata.forecast[i] <= inverter_kw * 1000
           ELSE \A i \in DOMAIN cdata.forecast :
                   cdata.forecast[i] = Mul(Mul(poa[i], InstalledKw), Efficiency)

\* A cap of 1 kW, a result with a point at the cap where the array gives more and a
\* point below the cap.
C9_Witness ==
    /\ cdata # NoData
    /\ inverter_kw = Scale
    /\ \E i \in DOMAIN cdata.forecast :
          /\ cdata.forecast[i] = 1000 * Scale
          /\ Mul(Mul(poa[i], InstalledKw), Efficiency) > 1000 * Scale
    /\ \E i \in DOMAIN cdata.forecast :
          /\ cdata.forecast[i] > 0
          /\ cdata.forecast[i] < 1000 * Scale

\* A run has built its cloud cover series from the rows it read from the cache
Aligned == pc = "idle" /\ last.op = "align" /\ last.cloud_cover # <<>>

\* The cloud_coverage of an observation is absent
Absent(cc) == cc = NoneValue \/ IsNaN(cc)

\* C13: the cloud cover series of a run has one value per grid entry: the
\* cloud_coverage of the cached observation with exactly that timestamp, 0 if that
\* observation has none, 0 if there is no such observation; observations outside the
\* grid change nothing.
C13_CloudCoverAligned ==
    Aligned =>
        /\ DOMAIN last.cloud_cover = DOMAIN times
        /\ \A i \in DOMAIN times :
              LET at == {k \in DOMAIN last.rows : last.rows[k].datetime = times[i]}
              IN  IF at = {}
                  THEN last.cloud_cover[i] = 0
                  ELSE \A k \in at :
                          last.cloud_cover[i] =
                              IF Absent(last.rows[k].cloud_coverage) THEN 0
                              ELSE last.rows[k].cloud_coverage * Scale

\* A step that ends a run
RunEnds == run'.count = run.count + 1

\* C14: a run whose get_forecasts call returns nothing for the entity does not
\* upsert and builds its cloud cover series from the observations of earlier runs
\* that are still retained; a run whose weather acquisition raises before the
\* upsert (no state, no supported forecast, the service call) leaves the cache as
\* it was.
C14_CachePersists ==
    /\ [][(RunEnds /\ pc = "awaiting" /\ last'.response = "absent") =>
             /\ data'.rows = CleanRows(data.rows, now)
             /\ last'.cloud_cover # <<>>
             /\ last'.cloud_cover = CloudCoverSeries(times, CleanRows(data.rows, now))]_vars
    /\ [][(RunEnds /\ run'.weather_error
                         \in {"state_missing", "unsupported", "service_error"}) =>
             data' = data]_vars

-----------------------------------------------------------------------------
(* Claims about the readers of the result, checked under SpecReader *)

\* The three parts of a result have one length and belong together point by point
ResultWhole(result) ==
    /\ Len(result.forecast) = Len(result.timestamps)
    /\ Len(result.wh_period) = Len(result.timestamps)
    /\ \A i \in DOMAIN result.timestamps :
          result.wh_period[i] = <<result.timestamps[i], result.forecast[i]>>

\* C11: a sensor reading during a run never finds the forecast and the timestamps
\* of different lengths; the result changes only in the step that ends a run that
\* returned, and then all of it at once, to the grid and the power of that run.
C11_AtomicPublication ==
    /\ [](fn.name = "state" => fn.out # "mismatch")
    /\ [](cdata # NoData => ResultWhole(cdata))
    /\ [][cdata' # cdata =>
            /\ pc' = "idle"
            /\ run'.count = run.count + 1
            /\ run'.outcome = "returned"
            /\ cdata'.timestamps = times'
            /\ DOMAIN cdata'.forecast = DOMAIN poa']_vars
    /\ [][fn' # fn => cdata' = cdata /\ pc = "awaiting"]_vars

\* A sensor read a value while a run with another grid than the published one was
\* waiting for the weather service.
C11_Witness ==
    /\ fn.name = "state"
    /\ fn.out = "value"
    /\ pc = "awaiting"
    /\ cdata # NoData
    /\ cdata.timestamps # times

====
